---- MODULE Spec2Model ----
(***************************************************************************)
(* Connection lifecycle of Router (src/router.py): the lazily populated    *)
(* dictionary self.connections, the registry self.servers, call_tool with  *)
(* its suspension points (connect, the tool call), aclose with its         *)
(* asyncio.gather over the close coroutines, and the async context         *)
(* manager.  Code between two awaits runs atomically on the event loop, so *)
(* every action below is one such segment.  MCPConnection is an external   *)
(* collaborator: connect, call_tool and aclose each succeed or fail.       *)
(***************************************************************************)
EXTENDS Integers, Sequences, FiniteSets

\* ---- bounds ----
NumCallers == 2         \* tasks that may be inside call_tool at once
MaxConns == 2           \* MCPConnection objects constructed in one behaviour
MaxShutdowns == 1       \* aclose invocations in one behaviour (explicit or by __aexit__)
SeqMaxShutdowns == 2    \* the same, when operations do not overlap

\* ---- inputs ----
Names == {"a", "b"}                 \* server names a caller may pass
Tools == {"t1", "t2"}               \* tool names
ParamsIn == {"None", "empty"}       \* params argument: None or an empty mapping
Queries == {"q1", "q2"}             \* free-text queries handed to route
Registries == {{}, {"a"}, {"a", "b"}}   \* configurations: "b" or both names undeclared
Callers == 1..NumCallers
TaskSlots == 1..(Cardinality(Names) * (MaxShutdowns + SeqMaxShutdowns))  \* positions of close tasks

None == 0                           \* Python None / an absent dictionary value

VARIABLES
    servers,        \* self.servers: the names of the registry
    connections,    \* self.connections: insertion-ordered dict, a sequence of [name, conn]
    conns,          \* every MCPConnection object ever constructed, by identity 1..Len(conns)
    callers,        \* per task: its position inside call_tool and its locals
    sdPc,           \* position of the task running aclose: idle, closing, returned, raised
    sdN,            \* number of aclose invocations so far
    sdPool,         \* the dictionary as it was when the running/last aclose started
    tasks,          \* the close tasks gather created, in creation order
    scope,          \* async with: out, in, exiting, released
    ret,            \* the latest completion of a call_tool: who got what
    stored          \* identities written into self.connections, in order

vars == <<servers, connections, conns, callers, sdPc, sdN, sdPool,
          tasks, scope, ret, stored>>

\* ---- the dictionary self.connections ----
HasKey(d, k) == \E i \in 1..Len(d) : d[i].name = k

GetNever(d, k) == None

\* dict.get(k): the value or None
Get(d, k) == IF HasKey(d, k) THEN d[CHOOSE i \in 1..Len(d) : d[i].name = k].conn ELSE None

\* d[k] = v: overwrite in place, or append a new key
PutDroppingOthers(d, k, v) == <<[name |-> k, conn |-> v]>>

Put(d, k, v) ==
    IF HasKey(d, k)
    THEN [i \in 1..Len(d) |-> IF d[i].name = k THEN [name |-> k, conn |-> v] ELSE d[i]]
    ELSE Append(d, [name |-> k, conn |-> v])

\* list(d.values())
ValuesSkipFirst(d) == [i \in 1..(IF Len(d) = 0 THEN 0 ELSE Len(d) - 1) |-> d[i + 1].conn]

Values(d) == [i \in 1..Len(d) |-> d[i].conn]

\* `if not connection` / `if not server_config`
KnownAlways(reg, k) == TRUE

Known(reg, k) == k \in reg

\* `params or {}`
ParamsOr(prm) == IF prm = "None" THEN "empty" ELSE prm

\* a task outside call_tool
IdleCaller == [pc |-> "idle", server |-> "-", tool |-> "-", params |-> "-",
               conn |-> None, fresh |-> FALSE]

\* what call_tool hands to its caller: "ok" for a returned result, else the error;
\* conn is the connection the call was using (None when it had none)
NoReturn == [caller |-> 0, outcome |-> "none", conn |-> None]
Return(p, out) == [caller |-> p, outcome |-> out, conn |-> callers[p].conn]

\* ---- Router.__init__: registry parsed, no connection opened ----
InitEager ==
    /\ servers \in Registries
    /\ connections = [i \in 1..(IF "a" \in servers THEN 1 ELSE 0) |-> [name |-> "a", conn |-> 1]]
    /\ conns = [i \in 1..(IF "a" \in servers THEN 1 ELSE 0) |->
                    [server |-> "a", st |-> "connected", closes |-> 0, scoped |-> FALSE]]
    /\ callers = [p \in Callers |-> IdleCaller]
    /\ sdPc = "idle"
    /\ sdN = 0
    /\ sdPool = <<>>
    /\ tasks = <<>>
    /\ scope = "out"
    /\ ret = NoReturn
    /\ stored = <<>>

Init ==
    /\ servers \in Registries
    /\ connections = <<>>
    /\ conns = <<>>
    /\ callers = [p \in Callers |-> IdleCaller]
    /\ sdPc = "idle"
    /\ sdN = 0
    /\ sdPool = <<>>
    /\ tasks = <<>>
    /\ scope = "out"
    /\ ret = NoReturn
    /\ stored = <<>>

\* ---- Router.call_tool, first segment: lines 112-122 up to `await connect()` ----
CallToolStoreFirst(p, server_name, tool_name, params) ==
    /\ callers[p].pc = "idle"
    /\ LET connection == Get(connections, server_name) IN
       IF connection # None
       THEN /\ callers' = [callers EXCEPT ![p] =
                    [pc |-> "calling", server |-> server_name, tool |-> tool_name,
                     params |-> ParamsOr(params), conn |-> connection,
                     fresh |-> FALSE]]
            /\ UNCHANGED <<conns, ret, connections>>
       ELSE IF ~Known(servers, server_name)
       THEN /\ callers' = [callers EXCEPT ![p] = IdleCaller]
            /\ ret' = Return(p, "UnknownServer")
            /\ UNCHANGED <<conns, connections>>
       ELSE /\ Len(conns) < MaxConns
            /\ conns' = Append(conns, [server |-> server_name, st |-> "connecting",
                                       closes |-> 0, scoped |-> FALSE])
            /\ connections' = Put(connections, server_name, Len(conns) + 1)
            /\ callers' = [callers EXCEPT ![p] =
                    [pc |-> "connecting", server |-> server_name, tool |-> tool_name,
                     params |-> ParamsOr(params), conn |-> Len(conns) + 1,
                     fresh |-> TRUE]]
            /\ ret' = ret
    /\ UNCHANGED <<servers, sdPc, sdN, sdPool, tasks, scope, stored>>

CallTool(p, server_name, tool_name, params) ==
    /\ callers[p].pc = "idle"
    /\ LET connection == Get(connections, server_name) IN
       IF connection # None
       THEN \* reuse: straight to `await connection.call_tool(...)`
            /\ callers' = [callers EXCEPT ![p] =
                    [pc |-> "calling", server |-> server_name, tool |-> tool_name,
                     params |-> ParamsOr(params), conn |-> connection,
                     fresh |-> FALSE]]
            /\ UNCHANGED <<conns, ret>>
       ELSE IF ~Known(servers, server_name)
       THEN \* raise ValueError
            /\ callers' = [callers EXCEPT ![p] = IdleCaller]
            /\ ret' = Return(p, "UnknownServer")
            /\ conns' = conns
       ELSE \* MCPConnection(server_config); await connection.connect()
            /\ Len(conns) < MaxConns
            /\ conns' = Append(conns, [server |-> server_name, st |-> "connecting",
                                       closes |-> 0, scoped |-> FALSE])
            /\ callers' = [callers EXCEPT ![p] =
                    [pc |-> "connecting", server |-> server_name, tool |-> tool_name,
                     params |-> ParamsOr(params), conn |-> Len(conns) + 1,
                     fresh |-> TRUE]]
            /\ ret' = ret
    /\ UNCHANGED <<servers, connections, sdPc, sdN, sdPool, tasks, scope, stored>>

\* connect() returned: line 124 stores the connection, line 126 issues the tool call
ConnectOkNoStore(p) ==
    /\ callers[p].pc = "connecting"
    /\ conns' = [conns EXCEPT ![callers[p].conn].st = "connected",
                              ![callers[p].conn].scoped = (scope = "in")]
    /\ callers' = [callers EXCEPT ![p].pc = "calling"]
    /\ UNCHANGED <<servers, connections, sdPc, sdN, sdPool, tasks, scope, ret, stored>>

ConnectOkJoiningTeardown(p) ==
    /\ callers[p].pc = "connecting"
    /\ LET c == callers[p].conn IN
       /\ conns' = [conns EXCEPT ![c].st = "connected", ![c].scoped = (scope = "in")]
       /\ connections' = Put(connections, callers[p].server, c)
       /\ stored' = Append(stored, c)
       /\ tasks' = IF sdPc = "closing"
                   THEN Append(tasks, [sd |-> sdN, conn |-> c, st |-> "scheduled"])
                   ELSE tasks
    /\ callers' = [callers EXCEPT ![p].pc = "calling"]
    /\ UNCHANGED <<servers, sdPc, sdN, sdPool, scope, ret>>

ConnectOk(p) ==
    /\ callers[p].pc = "connecting"
    /\ LET c == callers[p].conn IN
       /\ conns' = [conns EXCEPT ![c].st = "connected", ![c].scoped = (scope = "in")]
       /\ connections' = Put(connections, callers[p].server, c)
       /\ stored' = Append(stored, c)
    /\ callers' = [callers EXCEPT ![p].pc = "calling"]
    /\ UNCHANGED <<servers, sdPc, sdN, sdPool, tasks, scope, ret>>

ConnectFailCaching(p) ==
    /\ callers[p].pc = "connecting"
    /\ conns' = [conns EXCEPT ![callers[p].conn].st = "failed"]
    /\ connections' = Put(connections, callers[p].server, callers[p].conn)
    /\ callers' = [callers EXCEPT ![p] = IdleCaller]
    /\ ret' = Return(p, "ConnectError")
    /\ UNCHANGED <<servers, sdPc, sdN, sdPool, tasks, scope, stored>>

\* connect() raised: the exception leaves call_tool at line 122
ConnectFail(p) ==
    /\ callers[p].pc = "connecting"
    /\ conns' = [conns EXCEPT ![callers[p].conn].st = "failed"]
    /\ callers' = [callers EXCEPT ![p] = IdleCaller]
    /\ ret' = Return(p, "ConnectError")
    /\ UNCHANGED <<servers, connections, sdPc, sdN, sdPool, tasks, scope, stored>>

\* connection.call_tool returned: line 128
ToolReturn(p) ==
    /\ callers[p].pc = "calling"
    /\ callers' = [callers EXCEPT ![p] = IdleCaller]
    /\ ret' = Return(p, "ok")
    /\ UNCHANGED <<servers, connections, conns, sdPc, sdN, sdPool, tasks, scope, stored>>

\* connection.call_tool raised: the exception leaves call_tool at line 126
ToolFail(p) ==
    /\ callers[p].pc = "calling"
    /\ callers' = [callers EXCEPT ![p] = IdleCaller]
    /\ ret' = Return(p, "CallError")
    /\ UNCHANGED <<servers, connections, conns, sdPc, sdN, sdPool, tasks, scope, stored>>

\* ---- Router.route: `return self.matcher.match(query)` ----
\* what route hands to its caller: the matcher's ranking, or the matcher's error
Routed(ok) == [caller |-> 0, outcome |-> IF ok THEN "ranked" ELSE "MatchError",
               conn |-> None]

RouteTouching(query, ok) ==
    /\ ret' = Routed(ok)
    /\ connections' = <<>>
    /\ UNCHANGED <<servers, conns, callers, sdPc, sdN, sdPool, tasks, scope, stored>>

\* the coroutine has no await: one segment.  The matcher is an external
\* collaborator holding no reference to the router; match returns or raises.
Route(query, ok) ==
    /\ ret' = Routed(ok)
    /\ UNCHANGED <<servers, connections, conns, callers, sdPc, sdN, sdPool, tasks, scope,
                   stored>>

\* ---- Router.aclose ----
\* the list comprehension of line 133 and gather's task creation
GatherTasks(d, n) == [i \in 1..Len(Values(d)) |-> [sd |-> n, conn |-> Values(d)[i],
                                                     st |-> "scheduled"]]

\* a finished task of an earlier gather is garbage; an unfinished one keeps running
Unfinished(t) == t.st \in {"scheduled", "running"}

Mine(i) == tasks[i].sd = sdN
MyTasks == {i \in 1..Len(tasks) : Mine(i)}

\* gather() of no awaitables is already done: aclose returns without suspending
StartAcloseSuspending(max) ==
    /\ sdPc # "closing"
    /\ sdN < max
    /\ sdN' = sdN + 1
    /\ sdPool' = connections
    /\ tasks' = SelectSeq(tasks, Unfinished) \o GatherTasks(connections, sdN + 1)
    /\ sdPc' = "closing"

StartAclose(max) ==
    /\ sdPc # "closing"
    /\ sdN < max
    /\ sdN' = sdN + 1
    /\ sdPool' = connections
    /\ tasks' = SelectSeq(tasks, Unfinished) \o GatherTasks(connections, sdN + 1)
    /\ sdPc' = IF Len(connections) = 0 THEN "returned" ELSE "closing"

Aclose(max) ==
    /\ scope # "exiting"
    /\ StartAclose(max)
    /\ UNCHANGED <<servers, connections, conns, callers, scope, ret, stored>>

\* first step of a close task: conn.aclose() starts running.  Tasks were queued
\* with call_soon in creation order, so they start in that order.
CloseBegin(i) ==
    /\ i \in 1..Len(tasks)
    /\ tasks[i].st = "scheduled"
    /\ \A j \in 1..(i - 1) : tasks[j].st # "scheduled"
    /\ tasks' = [tasks EXCEPT ![i].st = "running"]
    /\ conns' = [conns EXCEPT ![tasks[i].conn].closes = @ + 1]
    /\ UNCHANGED <<servers, connections, callers, sdPc, sdN, sdPool, scope, ret, stored>>

CloseOk(i) ==
    /\ i \in 1..Len(tasks)
    /\ tasks[i].st = "running"
    /\ tasks' = [tasks EXCEPT ![i].st = "ok"]
    /\ UNCHANGED <<servers, connections, conns, callers, sdPc, sdN, sdPool, scope, ret,
                   stored>>

CloseFail(i) ==
    /\ i \in 1..Len(tasks)
    /\ tasks[i].st = "running"
    /\ tasks' = [tasks EXCEPT ![i].st = "failed"]
    /\ UNCHANGED <<servers, connections, conns, callers, sdPc, sdN, sdPool, scope, ret,
                   stored>>

\* leaving aclose also leaves __aexit__ when that is the caller
ScopeAfter == IF scope = "exiting" THEN "released" ELSE scope

\* gather's result is set when the last task finished and none raised
AcloseReturn ==
    /\ sdPc = "closing"
    /\ \A i \in MyTasks : tasks[i].st = "ok"
    /\ sdPc' = "returned"
    /\ scope' = ScopeAfter
    /\ UNCHANGED <<servers, connections, conns, callers, sdN, sdPool, tasks, ret, stored>>

RaiseEager == \E i \in MyTasks : tasks[i].st = "failed"

\* without return_exceptions the first exception is set on gather's future by
\* the failed task's done callback; that callback is queued behind the first
\* steps of all the tasks, the other tasks are not cancelled and keep running
CanRaise ==
    /\ \E i \in MyTasks : tasks[i].st = "failed"
    /\ \A i \in MyTasks : tasks[i].st # "scheduled"

AcloseRaise ==
    /\ sdPc = "closing"
    /\ CanRaise
    /\ sdPc' = "raised"
    /\ scope' = ScopeAfter
    /\ UNCHANGED <<servers, connections, conns, callers, sdN, sdPool, tasks, ret, stored>>

\* ---- async context manager ----
\* `async with Router(...) as router`: the scope is acquired before the router is used
AEnter ==
    /\ scope = "out"
    /\ Len(conns) = 0
    /\ sdN = 0
    /\ scope' = "in"
    /\ UNCHANGED <<servers, connections, conns, callers, sdPc, sdN, sdPool, tasks, ret,
                   stored>>

\* __aexit__(exc_type, exc, tb): awaits aclose whatever the arguments are (exc is
\* not read)
AExit(exc, max) ==
    /\ scope = "in"
    /\ StartAclose(max)
    /\ scope' = IF Len(connections) = 0 THEN "released" ELSE "exiting"
    /\ UNCHANGED <<servers, connections, conns, callers, ret, stored>>

Next ==
    \/ \E p \in Callers, s \in Names, t \in Tools, prm \in ParamsIn : CallTool(p, s, t, prm)
    \/ \E p \in Callers : ConnectOk(p)
    \/ \E p \in Callers : ConnectFail(p)
    \/ \E p \in Callers : ToolReturn(p)
    \/ \E p \in Callers : ToolFail(p)
    \/ \E q \in Queries, ok \in BOOLEAN : Route(q, ok)
    \/ Aclose(MaxShutdowns)
    \/ \E i \in TaskSlots : CloseBegin(i)
    \/ \E i \in TaskSlots : CloseOk(i)
    \/ \E i \in TaskSlots : CloseFail(i)
    \/ AcloseReturn
    \/ AcloseRaise
    \/ AEnter
    \/ \E exc \in BOOLEAN : AExit(exc, MaxShutdowns)

Spec == Init /\ [][Next]_vars

\* ---- non-overlapping use: an operation starts only when none is in progress ----
Quiet == (\A p \in Callers : callers[p].pc = "idle") /\ sdPc # "closing"

SeqCallTool(p, s, t, prm) == Quiet /\ CallTool(p, s, t, prm)
SeqRoute(q, ok) == Quiet /\ Route(q, ok)
SeqAclose == Quiet /\ Aclose(SeqMaxShutdowns)
SeqAExit(exc) == Quiet /\ AExit(exc, SeqMaxShutdowns)

SeqNext ==
    \/ \E p \in Callers, s \in Names, t \in Tools, prm \in ParamsIn : SeqCallTool(p, s, t, prm)
    \/ \E p \in Callers : ConnectOk(p)
    \/ \E p \in Callers : ConnectFail(p)
    \/ \E p \in Callers : ToolReturn(p)
    \/ \E p \in Callers : ToolFail(p)
    \/ \E q \in Queries, ok \in BOOLEAN : SeqRoute(q, ok)
    \/ SeqAclose
    \/ \E i \in TaskSlots : CloseBegin(i)
    \/ \E i \in TaskSlots : CloseOk(i)
    \/ \E i \in TaskSlots : CloseFail(i)
    \/ AcloseReturn
    \/ AcloseRaise
    \/ AEnter
    \/ \E exc \in BOOLEAN : SeqAExit(exc)

SeqSpec == Init /\ [][SeqNext]_vars

\* ---- teardown concurrent with one caller: call_tool invocations do not overlap
\* ---- each other, but overlap aclose and its close tasks
NoCall == \A p \in Callers : callers[p].pc = "idle"

SoloCallTool(p, s, t, prm) == NoCall /\ CallTool(p, s, t, prm)

TeardownNext ==
    \/ \E p \in Callers, s \in Names, t \in Tools, prm \in ParamsIn : SoloCallTool(p, s, t, prm)
    \/ \E p \in Callers : ConnectOk(p)
    \/ \E p \in Callers : ConnectFail(p)
    \/ \E p \in Callers : ToolReturn(p)
    \/ \E p \in Callers : ToolFail(p)
    \/ \E q \in Queries, ok \in BOOLEAN : Route(q, ok)
    \/ Aclose(MaxShutdowns)
    \/ \E i \in TaskSlots : CloseBegin(i)
    \/ \E i \in TaskSlots : CloseOk(i)
    \/ \E i \in TaskSlots : CloseFail(i)
    \/ AcloseReturn
    \/ AcloseRaise
    \/ AEnter
    \/ \E exc \in BOOLEAN : AExit(exc, MaxShutdowns)

TeardownSpec == Init /\ [][TeardownNext]_vars

\* ---- the router in service: concurrent call_tool invocations and route, no
\* ---- teardown
CallNext ==
    \/ \E p \in Callers, s \in Names, t \in Tools, prm \in ParamsIn : CallTool(p, s, t, prm)
    \/ \E p \in Callers : ConnectOk(p)
    \/ \E p \in Callers : ConnectFail(p)
    \/ \E p \in Callers : ToolReturn(p)
    \/ \E p \in Callers : ToolFail(p)
    \/ \E q \in Queries, ok \in BOOLEAN : Route(q, ok)

CallSpec == Init /\ [][CallNext]_vars

\* ---- observers used by the properties ----
ConnIds == 1..Len(conns)
ConnsOf(s) == {c \in ConnIds : conns[c].server = s}
FailedOf(s) == {c \in ConnsOf(s) : conns[c].st = "failed"}
InPool(c) == \E k \in 1..Len(connections) : connections[k].conn = c
StoresOf(s) == {i \in 1..Len(stored) : conns[stored[i]].server = s}
FirstStored(s) == stored[CHOOSE i \in StoresOf(s) : \A j \in StoresOf(s) : i <= j]
Surfaced == sdPc \in {"returned", "raised"}
BegunFor(c) == {i \in MyTasks : tasks[i].conn = c /\ tasks[i].st # "scheduled"}
StoredLate(c) == InPool(c) /\ \A k \in 1..Len(sdPool) : sdPool[k].conn # c

\* C1: under concurrent use at most one Connection object exists per server
\* name: overlapping call_tool invocations for a not yet connected server share
\* one connect attempt and no second object is created (objects whose connect
\* failed aside).
C1_OneConnectionPerServer ==
    \A s \in Names : Cardinality(ConnsOf(s) \ FailedOf(s)) <= 1

\* C2 as stated: after non-overlapping call_tool invocations for a registered
\* server, with no shutdown, exactly one Connection was ever created for it.
C2_ExactlyOneCreated ==
    \A s \in servers : (sdN = 0 /\ ConnsOf(s) # {}) => Cardinality(ConnsOf(s)) = 1

\* C2 amended: with non-overlapping invocations the number of Connection objects
\* created for a name is at most one more than the number of failed connect
\* handshakes for it, and a call in progress for a registered name has one.
C2_OnePlusFailedConnects ==
    /\ \A s \in Names : Cardinality(ConnsOf(s)) <= 1 + Cardinality(FailedOf(s))
    /\ \A p \in Callers : callers[p].pc # "idle" => ConnsOf(callers[p].server) # {}

C2_Witness ==
    \E s \in servers, p \in Callers :
        /\ Cardinality(ConnsOf(s)) = 2
        /\ Cardinality(FailedOf(s)) = 1
        /\ callers[p].pc = "calling" /\ callers[p].server = s /\ ~callers[p].fresh

\* C3: once a call_tool for s stored its connection, every later call_tool for
\* s (no shutdown in between) is issued on that same object without connecting.
C3_ReuseFirstStored ==
    sdN = 0 =>
        \A p \in Callers :
            (callers[p].pc = "calling" /\ ~callers[p].fresh)
                => callers[p].conn = FirstStored(callers[p].server)

\* C4: a call_tool for a name that is in neither the pool nor the registry
\* ends with the unknown-server error, constructs no Connection and leaves the
\* pool as it was.
C4_UnknownServerRejected ==
    [][\A s \in Names :
         (s \notin servers /\ Get(connections, s) = None) =>
            \A p \in Callers, t \in Tools, prm \in ParamsIn :
                CallTool(p, s, t, prm)
                    => /\ callers'[p] = IdleCaller
                       /\ ret' = Return(p, "UnknownServer")
                       /\ conns' = conns
                       /\ connections' = connections]_vars

C4_Witness ==
    ret.outcome = "UnknownServer" /\ Len(connections) > 0

\* C5: when the connect handshake of a call fails, the caller gets the connect
\* error, the call ends there (no retry, no tool call), the pool is unchanged;
\* and a call for a registered name that has no pool entry constructs a new
\* Connection and starts its connect, earlier failures notwithstanding.
C5_ConnectFailureNotCached ==
    [][/\ \A p \in Callers :
            (/\ callers[p].pc = "connecting"
             /\ conns'[callers[p].conn].st = "failed")
                => /\ callers'[p] = IdleCaller
                   /\ ret' = Return(p, "ConnectError")
                   /\ connections' = connections
                   /\ Len(conns') = Len(conns)
       /\ \A s \in servers :
            (Get(connections, s) = None /\ FailedOf(s) # {}) =>
               \A p \in Callers, t \in Tools, prm \in ParamsIn :
                   CallTool(p, s, t, prm)
                       => /\ Len(conns') = Len(conns) + 1
                          /\ conns'[Len(conns')].server = s
                          /\ conns'[Len(conns')].st = "connecting"
                          /\ callers'[p].pc = "connecting"
                          /\ callers'[p].conn = Len(conns')]_vars

C5_Witness ==
    \E p \in Callers :
        /\ callers[p].pc = "connecting"
        /\ \E f \in FailedOf(callers[p].server) : f < callers[p].conn
        /\ \A q \in Callers \ {p} : callers[q] = IdleCaller
        /\ ret.caller = p /\ ret.outcome = "ConnectError"

\* C6: when an aclose has completed, every connection that was in the pool when
\* it started has had close invoked by it exactly once (and, for the first
\* aclose, exactly once in all).
C6_FullTeardown ==
    Surfaced =>
        \A k \in 1..Len(sdPool) :
            /\ Cardinality(BegunFor(sdPool[k].conn)) = 1
            /\ sdN = 1 => conns[sdPool[k].conn].closes = 1

C6_Witness ==
    /\ sdPc = "returned"
    /\ Len(sdPool) = 2
    /\ \A k \in 1..Len(sdPool) : conns[sdPool[k].conn].closes = 1

\* C7: after aclose the pool no longer holds the connections it closed.
C7_ShutdownClearsPool ==
    Surfaced => \A k \in 1..Len(sdPool) : ~InPool(sdPool[k].conn)

\* C8: when aclose surfaces a close failure, close has been invoked on every
\* other connection of the pool as well.
C8_CloseFailureIsolation ==
    sdPc = "raised" =>
        \A k \in 1..Len(sdPool) :
            \E i \in MyTasks : tasks[i].conn = sdPool[k].conn
                               /\ tasks[i].st \in {"running", "ok", "failed"}

C8_Witness ==
    /\ sdPc = "raised"
    /\ \E i, j \in MyTasks : tasks[i].st = "failed" /\ tasks[j].st \in {"running", "ok"}

\* C9: aclose returns or raises only after every close it issued has finished.
C9_ShutdownBarrier ==
    Surfaced => \A i \in MyTasks : tasks[i].st \in {"ok", "failed"}

\* C10: once the scope's release has completed, every Connection that was
\* connected during the scope has had close invoked.
C10_ScopeLeavesNoLeak ==
    scope = "released" => \A c \in ConnIds : conns[c].scoped => conns[c].closes >= 1

\* C11: a failed tool call changes neither the pool nor the set of connections,
\* and the connection it failed on, when it is the pool's entry, stays the
\* pool's entry for its name as long as no shutdown starts.
C11_CallFailureKeepsEntry ==
    [][/\ \A p \in Callers :
            (callers[p].pc = "calling" /\ ret' # ret /\ ret'.caller = p
                /\ ret'.outcome = "CallError")
                => (connections' = connections /\ conns' = conns)
       /\ (ret.outcome = "CallError" /\ ret' = ret /\ sdN' = 0 /\ InPool(ret.conn))
            => Get(connections', conns[ret.conn].server) = ret.conn]_vars

\* C12: construction opens nothing: whatever the registry holds, the initial
\* state has an empty pool and no Connection object; and a Connection for a
\* name comes into existence only in a step of a call_tool that targets that
\* name, one object per step, not yet connected.
C12_LazyConstruction ==
    /\ (conns = <<>> /\ connections = <<>>)
    /\ [][conns' # conns /\ Len(conns') # Len(conns) =>
            /\ Len(conns') = Len(conns) + 1
            /\ conns'[Len(conns')].st = "connecting"
            /\ \E p \in Callers, t \in Tools, prm \in ParamsIn :
                   CallTool(p, conns'[Len(conns')].server, t, prm)]_vars

C12_Witness ==
    /\ Cardinality(servers) = 2
    /\ connections = <<>>
    /\ Len(conns) = 1 /\ conns[1].server = "b"
    /\ \E p \in Callers : callers[p].pc = "connecting" /\ callers[p].conn = 1
    /\ ret = NoReturn

\* C13: a route step, in any state and for any query, leaves the pool, the
\* registry and every Connection as they were: no object is created, nothing is
\* connected, called or closed.
C13_RouteTouchesNothing ==
    [][\A q \in Queries, ok \in BOOLEAN :
         Route(q, ok) => UNCHANGED <<servers, connections, conns, callers, tasks, stored>>]_vars

C13_Witness ==
    /\ ret.outcome = "ranked"
    /\ Len(connections) = 1
    /\ \E p \in Callers : callers[p].pc = "connecting"
    /\ sdPc = "closing"

\* C14: an aclose that starts on an empty pool completes in that very step
\* without error: no close task is created, no Connection is touched and the
\* pool is still empty.
C14_EmptyShutdownNoOp ==
    [][(sdN' = sdN + 1 /\ Len(connections) = 0) =>
          /\ sdPc' = "returned"
          /\ connections' = <<>>
          /\ conns' = conns
          /\ \A i \in 1..Len(tasks') : tasks'[i].sd # sdN'
          /\ scope' # "exiting"]_vars

C14_Witness ==
    /\ sdN = 1 /\ sdPc = "returned"
    /\ sdPool = <<>> /\ connections = <<>> /\ tasks = <<>>
    /\ \E c \in ConnIds : conns[c].st = "failed" /\ conns[c].closes = 0

\* C15: an aclose that starts after an aclose that returned issues no close
\* for a connection on which close was already invoked.
C15_SecondShutdownSkipsClosed ==
    [][(sdN' = sdN + 1 /\ sdPc = "returned") =>
          \A i \in 1..Len(tasks') :
              tasks'[i].sd = sdN' => conns[tasks'[i].conn].closes = 0]_vars

\* C16: once the pool holds a connection under a name, no step replaces it by
\* another object or removes it.
C16_KeyInsertedOnce ==
    [][\A s \in Names :
         Get(connections, s) # None => Get(connections', s) = Get(connections, s)]_vars

\* C17: a tool call is in flight only on a connection whose connect succeeded,
\* and when the call created that connection it has been written to the pool
\* before, so the pool has an entry for the name while the call is in flight.
C17_StoreBeforeCall ==
    \A p \in Callers :
        callers[p].pc = "calling" =>
            /\ conns[callers[p].conn].st = "connected"
            /\ callers[p].fresh =>
                  /\ \E i \in 1..Len(stored) : stored[i] = callers[p].conn
                  /\ HasKey(connections, callers[p].server)

C17_Witness ==
    \E p, q \in Callers :
        /\ callers[p].pc = "calling" /\ callers[p].fresh
        /\ callers[q].pc = "calling" /\ ~callers[q].fresh
        /\ callers[q].conn = callers[p].conn

\* C18: the registry never changes, and the pool changes only in the step of a
\* call_tool whose connect returned: that step sets the entry of the call's
\* own name to the call's connection, adds at most that one entry, removes
\* none and leaves the entry of every other name as it was.
C18_CallToolFrame ==
    [][/\ servers' = servers
       /\ connections' # connections =>
            \E p \in Callers :
               /\ callers[p].pc = "connecting" /\ callers'[p].pc = "calling"
               /\ Len(connections') \in {Len(connections), Len(connections) + 1}
               /\ Get(connections', callers[p].server) = callers[p].conn
               /\ \A s \in Names \ {callers[p].server} :
                      Get(connections', s) = Get(connections, s)]_vars

C18_Witness ==
    /\ Len(connections) = 2
    /\ ret.outcome = "CallError"
    /\ \E p \in Callers : callers[p].pc = "calling" /\ callers[p].fresh

\* C19: every name with a pool entry is a name of the registry, and every
\* connection in the pool has completed its connect successfully.
C19_PoolWellFormed ==
    \A k \in 1..Len(connections) :
        /\ connections[k].name \in servers
        /\ conns[connections[k].conn].st = "connected"

C19_Witness ==
    /\ Len(connections) = 1
    /\ servers = {"a"}
    /\ \E c \in ConnIds : conns[c].st = "connecting" /\ ~InPool(c)

\* C20: the close tasks of an aclose are exactly those for the connections the
\* pool held when it started; a connection stored after the start has no
\* close task of that aclose (and no close at all while that aclose is the
\* only one).
C20_ClosesPoolAtStart ==
    sdN >= 1 =>
        /\ {tasks[i].conn : i \in MyTasks} = {sdPool[k].conn : k \in 1..Len(sdPool)}
        /\ \A c \in ConnIds :
              StoredLate(c) => /\ \A i \in MyTasks : tasks[i].conn # c
                               /\ sdN = 1 => conns[c].closes = 0

C20_Witness ==
    /\ sdPc = "returned"
    /\ Len(sdPool) = 1 /\ Len(connections) = 2
    /\ conns[connections[1].conn].closes = 1
    /\ StoredLate(connections[2].conn)
    /\ conns[connections[2].conn].closes = 0

====
